---- MODULE Spec2Model ----
(***************************************************************************)
(* State-machine model of the order-book trading bot:                      *)
(*   src/data_stream.py  feed handlers, ingestion queues, category         *)
(*                       consumers, the lock-protected market state store, *)
(*                       get_snapshot, user_handler and its own `position` *)
(*   src/main.py         the trading loop (run_trading) and its own        *)
(*                       `position`, enter/close/update_trailing_stop      *)
(*   src/signal.py       generate_signal (its HOLD-on-empty guard only)    *)
(*                                                                         *)
(* main.py imports get_snapshot, start_streams, fetch_initial_data and     *)
(* command_queue from data_stream, and defines a module-level `position`   *)
(* of its own; data_stream.py defines another.  They are two dictionaries: *)
(* `position` below is main.py's, `ds_position` is data_stream.py's.       *)
(*                                                                         *)
(* Numbers.  Prices are integers in cents and every price that enters the  *)
(* program (mark price, average fill price) is a whole number of dollars,  *)
(* so that the 2% arithmetic is exact.  Quantities are integers in         *)
(* thousandths (calc_qty rounds to 3 decimals).  None is the integer -1    *)
(* (every real id, price and quantity is >= 0).                            *)
(***************************************************************************)
EXTENDS Integers, Sequences, FiniteSets, TLC

VARIABLES
    \* ---- data_stream.py: market side
    queues,          \* depth_queue, trade_queue, aggtrade_queue, ticker_queue
    state,           \* the shared market state store
    heap,            \* the dict objects (trades, volume buckets) lists refer to
    lock,            \* holder of `lock`, or "free"
    cons,            \* per consumer thread: position in its loop and its msg
    clock,           \* time.time(), in seconds
    snapshot,        \* the trading loop's local `snapshot`
    committed,       \* the store as it stood when the lock was last released
    n_feed,          \* feed events delivered so far
    warnings,        \* "queue full, message dropped" warnings logged so far
    caller,          \* snapshot harness: writes a caller made to its copy
    \* ---- main.py / user stream: trading side
    position,        \* main.py position
    ds_position,     \* data_stream.py position
    command_queue,   \* queue.Queue() of commands for the trading loop
    pc,              \* the trading loop's position in run_trading
    iter,            \* iterations of the while True loop completed
    signal,          \* local `signal` of the iteration
    price,           \* local `price` of the iteration
    res,             \* result of the operation the loop performed last
    orders,          \* orders the exchange accepted, in order
    uh,              \* user_handler: position in the handler and its msg
    fills,           \* the last FILLED event delivered for the entry order id
                     \* main.py's position held, and the iteration it came in
    n_user,          \* user events delivered so far
    marks            \* trailing-stop harness: prices passed, stops recorded

market_vars == <<queues, state, heap, lock, cons, clock, snapshot, committed,
                 n_feed, warnings, caller>>
trade_vars == <<position, ds_position, command_queue, pc, iter, signal, price,
                res, orders, uh, fills, n_user, marks>>
vars == <<queues, state, heap, lock, cons, clock, snapshot, committed,
          n_feed, warnings, caller,
          position, ds_position, command_queue, pc, iter, signal, price,
          res, orders, uh, fills, n_user, marks>>

None == 0 - 1

(***************************************************************************)
(* Bounds of the model.                                                    *)
(***************************************************************************)
MaxQueue == 2        \* stands for MAX_QUEUE (1000): capacity of a feed queue
TradeCap == 2        \* stands for deque(maxlen=100) of trades
VolCap == 2          \* stands for deque(maxlen=20) of volume buckets
MaxFeed == 3         \* feed events delivered in a run
MaxBookQty == 1      \* quantities a depth delta carries: 0..MaxBookQty
MaxMinute == 2       \* the wall clock runs from minute 1 to MaxMinute
MaxIter == 1         \* iterations the trading loop completes before its last one
MaxUser == 2         \* user-stream events delivered in a run
MaxOrderId == 2      \* order ids the user stream reports: 1..MaxOrderId
MaxMove == 2         \* mark prices move MaxMove dollars away from BasePrice
MaxTrail == 3        \* trailing-stop harness: mark prices passed in a run
TrailMove == 2       \* trailing-stop harness: prices BasePrice -+ TrailMove dollars
MaxCaller == 1       \* snapshot harness: writes the caller makes to its copy

(***************************************************************************)
(* Program constants.                                                      *)
(***************************************************************************)
LEVERAGE == 20
RISK_PCT == 90           \* RISK_PER_TRADE = 0.9
INITIAL_SL_PCT == 2      \* the 0.02 of user_handler's initial stop
DYNAMIC_SL_PCT == 2      \* DYNAMIC_SL = 0.02
MIN_NOTIONAL == 20       \* enter_position: qty * price < 20
BasePrice == 100         \* dollars; the prices of the runs lie around it

Categories == {"depth", "trade", "aggtrade", "ticker"}

(***************************************************************************)
(* float(): a decimal string of the feed becomes a number.  Book prices    *)
(* and quantities and trade quantities are whole numbers in the messages   *)
(* of the runs; money amounts become cents.                                *)
(***************************************************************************)
Cents(dollars) == dollars * 100

(***************************************************************************)
(* The messages the exchange connectivity layer delivers.                  *)
(***************************************************************************)
DepthMsgs ==
    { [e |-> "depthUpdate", b |-> <<<<1, q>>, <<2, q>>>>, a |-> <<<<3, q>>>>, u |-> q + 1]
        : q \in 0..MaxBookQty }
    \cup { [e |-> "other", b |-> <<>>, a |-> <<>>, u |-> 0] }

\* p price, q quantity, m buyer-is-maker, T trade time in ms
TradeMsgs(now) ==
    { [p |-> BasePrice, q |-> 1, m |-> (t # now), T |-> t * 1000]
        : t \in {now, now - 60} }

TickerMsgs == { [P |-> 0], [P |-> 1] }

(***************************************************************************)
(* data_stream.py: feed handlers.                                          *)
(***************************************************************************)
\* a slip: the oldest event evicted to make room (drop-oldest)
put_drop_oldest(q, msg) ==
    IF Len(q) < MaxQueue THEN Append(q, msg) ELSE Append(Tail(q), msg)

\* queue.Queue(MAX_QUEUE).put_nowait: raises queue.Full at capacity, and
\* every handler catches it and logs a warning.
put_nowait(q, msg) == IF Len(q) < MaxQueue THEN Append(q, msg) ELSE q

\* the warnings logged after a put_nowait on q
warned(q, n) == IF Len(q) < MaxQueue THEN n ELSE n + 1

feed_frame == UNCHANGED <<state, heap, lock, cons, clock, snapshot, committed, caller>>

depth_handler(msg) ==
    /\ n_feed < MaxFeed
    /\ n_feed' = n_feed + 1
    /\ IF msg.e # "depthUpdate"
       THEN UNCHANGED <<queues, warnings>>
       ELSE /\ queues' = [queues EXCEPT !["depth"] = put_nowait(@, msg)]
            /\ warnings' = warned(queues["depth"], warnings)
    /\ feed_frame
    /\ UNCHANGED trade_vars

trade_handler(msg) ==
    /\ n_feed < MaxFeed
    /\ n_feed' = n_feed + 1
    /\ queues' = [queues EXCEPT !["trade"] = put_nowait(@, msg)]
    /\ warnings' = warned(queues["trade"], warnings)
    /\ feed_frame
    /\ UNCHANGED trade_vars

aggtrade_handler(msg) ==
    /\ n_feed < MaxFeed
    /\ n_feed' = n_feed + 1
    /\ queues' = [queues EXCEPT !["aggtrade"] = put_nowait(@, msg)]
    /\ warnings' = warned(queues["aggtrade"], warnings)
    /\ feed_frame
    /\ UNCHANGED trade_vars

ticker_handler(msg) ==
    /\ n_feed < MaxFeed
    /\ n_feed' = n_feed + 1
    /\ queues' = [queues EXCEPT !["ticker"] = put_nowait(@, msg)]
    /\ warnings' = warned(queues["ticker"], warnings)
    /\ feed_frame
    /\ UNCHANGED trade_vars

(***************************************************************************)
(* data_stream.py: the store and its consumers.                            *)
(***************************************************************************)
\* d[k] = v on a dict
DictSet(d, k, v) == [x \in (DOMAIN d) \cup {k} |-> IF x = k THEN v ELSE d[x]]

\* a slip: a zero quantity removes the level instead of being stored
RECURSIVE merge_levels_drop_zero(_, _)
merge_levels_drop_zero(side, pairs) ==
    IF pairs = <<>> THEN side
    ELSE LET p == pairs[1][1]
             q == pairs[1][2]
             d == IF q = 0 THEN [x \in (DOMAIN side) \ {p} |-> side[x]]
                  ELSE DictSet(side, p, q)
         IN  merge_levels_drop_zero(d, Tail(pairs))

\* for price, qty in msg[...]: side[float(price)] = float(qty)
RECURSIVE merge_levels(_, _)
merge_levels(side, pairs) ==
    IF pairs = <<>> THEN side
    ELSE merge_levels(DictSet(side, pairs[1][1], pairs[1][2]), Tail(pairs))

\* a slip: a full ring refuses the new element instead of evicting the oldest
deque_append_keep_oldest(d, x, maxlen) ==
    IF Len(d) < maxlen THEN Append(d, x) ELSE d

\* deque(maxlen=n).append
deque_append(d, x, maxlen) ==
    IF Len(d) < maxlen THEN Append(d, x) ELSE Append(Tail(d), x)

\* the trade dict the trade consumers build from a message
make_trade(msg) ==
    [price |-> msg.p, qty |-> msg.q, is_buyer_maker |-> msg.m, time |-> msg.T,
     side |-> IF msg.m THEN "SELL" ELSE "BUY"]

\* int(time.time() // 60) * 60
minute_of(now) == (now \div 60) * 60

\* sum(trade["qty"] for trade in trades if trade["time"] // 1000 >= since)
RECURSIVE SumQty(_, _, _)
SumQty(h, refs, since) ==
    IF refs = <<>> THEN 0
    ELSE (IF h[Head(refs)].time \div 1000 >= since THEN h[Head(refs)].qty ELSE 0)
         + SumQty(h, Tail(refs), since)

\* a slip: a bucket appended on every call, the current minute's included
update_volumes_append_only(st, h, now) ==
    [state |-> [st EXCEPT !.volume_history =
                              deque_append(@, Len(h) + 1, VolCap)],
     heap |-> Append(h, [time |-> minute_of(now),
                         volume |-> SumQty(h, st.trades, minute_of(now))])]

\* _update_volumes_locked: the last bucket is overwritten in place when it is
\* the current minute's, otherwise a new bucket object is appended.
update_volumes_locked(st, h, now) ==
    LET current_time == minute_of(now)
        current_volume == SumQty(h, st.trades, current_time)
        vh == st.volume_history
    IN  IF vh # <<>> /\ h[vh[Len(vh)]].time = current_time
        THEN [state |-> st,
              heap |-> [h EXCEPT ![vh[Len(vh)]].volume = current_volume]]
        ELSE [state |-> [st EXCEPT !.volume_history =
                                        deque_append(vh, Len(h) + 1, VolCap)],
              heap |-> Append(h, [time |-> current_time, volume |-> current_volume])]

\* what a reader of the store (or of a snapshot) sees through the references
Deref(h, refs) == [i \in 1..Len(refs) |-> h[refs[i]]]

View(s, h) ==
    [bids |-> s.bids, asks |-> s.asks, trades |-> Deref(h, s.trades),
     volume_history |-> Deref(h, s.volume_history), ticker_pct |-> s.ticker_pct]

cons_frame == UNCHANGED <<clock, snapshot, n_feed, warnings, caller>>

\* msg = depth_queue.get()
process_depth_get ==
    /\ cons["depth"].pc = "idle"
    /\ queues["depth"] # <<>>
    /\ cons' = [cons EXCEPT !["depth"] = [pc |-> "got", msg |-> Head(queues["depth"])]]
    /\ queues' = [queues EXCEPT !["depth"] = Tail(@)]
    /\ UNCHANGED <<state, heap, lock, committed>>
    /\ cons_frame
    /\ UNCHANGED trade_vars

\* with lock: the loop over msg["b"]
process_depth_bids ==
    /\ cons["depth"].pc = "got"
    /\ lock = "free"
    /\ lock' = "depth"
    /\ state' = [state EXCEPT !.bids = merge_levels(@, cons["depth"].msg.b)]
    /\ cons' = [cons EXCEPT !["depth"].pc = "asks"]
    /\ UNCHANGED <<queues, heap, committed>>
    /\ cons_frame
    /\ UNCHANGED trade_vars

\* the loop over msg["a"]
process_depth_asks ==
    /\ cons["depth"].pc = "asks"
    /\ state' = [state EXCEPT !.asks = merge_levels(@, cons["depth"].msg.a)]
    /\ cons' = [cons EXCEPT !["depth"].pc = "uid"]
    /\ UNCHANGED <<queues, heap, lock, committed>>
    /\ cons_frame
    /\ UNCHANGED trade_vars

\* last_update_id = msg["u"], and the lock is released
process_depth_uid ==
    /\ cons["depth"].pc = "uid"
    /\ state' = [state EXCEPT !.last_update_id = cons["depth"].msg.u]
    /\ cons' = [cons EXCEPT !["depth"] = [pc |-> "idle", msg |-> <<>>]]
    /\ lock' = "free"
    /\ committed' = View(state', heap)
    /\ UNCHANGED <<queues, heap>>
    /\ cons_frame
    /\ UNCHANGED trade_vars

\* _process_trades and _process_aggtrades (c is the queue each drains)
process_trades_get(c) ==
    /\ cons[c].pc = "idle"
    /\ queues[c] # <<>>
    /\ cons' = [cons EXCEPT ![c] = [pc |-> "got", msg |-> Head(queues[c])]]
    /\ queues' = [queues EXCEPT ![c] = Tail(@)]
    /\ UNCHANGED <<state, heap, lock, committed>>
    /\ cons_frame
    /\ UNCHANGED trade_vars

\* with lock: state["trades"].append(trade)
process_trades_append(c) ==
    /\ cons[c].pc = "got"
    /\ lock = "free"
    /\ lock' = c
    /\ heap' = Append(heap, make_trade(cons[c].msg))
    /\ state' = [state EXCEPT !.trades = deque_append(@, Len(heap) + 1, TradeCap)]
    /\ cons' = [cons EXCEPT ![c].pc = "volumes"]
    /\ UNCHANGED <<queues, committed>>
    /\ cons_frame
    /\ UNCHANGED trade_vars

\* _update_volumes_locked(), and the lock is released
process_trades_volumes(c) ==
    /\ cons[c].pc = "volumes"
    /\ LET r == update_volumes_locked(state, heap, clock)
       IN  /\ state' = r.state
           /\ heap' = r.heap
           /\ committed' = View(r.state, r.heap)
    /\ cons' = [cons EXCEPT ![c] = [pc |-> "idle", msg |-> <<>>]]
    /\ lock' = "free"
    /\ UNCHANGED queues
    /\ cons_frame
    /\ UNCHANGED trade_vars

\* _process_ticker: one write under the lock
process_ticker ==
    /\ cons["ticker"].pc = "idle"
    /\ queues["ticker"] # <<>>
    /\ lock = "free"
    /\ state' = [state EXCEPT !.ticker_pct = Head(queues["ticker"]).P]
    /\ queues' = [queues EXCEPT !["ticker"] = Tail(@)]
    /\ committed' = View(state', heap)
    /\ UNCHANGED <<heap, lock, cons>>
    /\ cons_frame
    /\ UNCHANGED trade_vars

\* the wall clock advances
Tick ==
    /\ clock + 60 < 60 * (MaxMinute + 1)
    /\ clock' = clock + 60
    /\ UNCHANGED <<queues, state, heap, lock, cons, snapshot, committed,
                   n_feed, warnings, caller>>
    /\ UNCHANGED trade_vars

\* get_snapshot: under the lock, dict() of each book side and list() of each
\* deque: the dicts and lists are new, the trade and bucket dicts in the lists
\* are the store's own objects.
get_snapshot(st) ==
    [bids |-> st.bids, asks |-> st.asks, trades |-> st.trades,
     volume_history |-> st.volume_history, ticker_pct |-> st.ticker_pct]

(***************************************************************************)
(* Position (main.py 42-50, data_stream.py 15-23).                         *)
(***************************************************************************)
Baseline ==
    [state |-> "none", entry_order_id |-> None, stop_order_id |-> None,
     entry |-> None, qty |-> 0, max_pnl |-> 0, stop_price |-> None]

\* float() of the user stream's decimal strings: average price in dollars to
\* cents, filled quantity in units to thousandths
Milli(units) == units * 1000

\* the mark prices the exchange reports in the runs: below, at and above BasePrice
MarkPrices == { Cents(BasePrice + d * MaxMove) : d \in {0 - 1, 0, 1} }

\* available USDT balances, in dollars, the account may report: one too small
\* for the minimum notional at 20x, one large enough
Balances == {1, 10}

(***************************************************************************)
(* main.py: exchange requests.  Each catches every exception of its call   *)
(* and returns a neutral value.                                            *)
(***************************************************************************)
\* fetch_balance: the balance, or 0.0 when the request fails
fetch_balance_results == { Cents(b) : b \in Balances } \cup {0}

\* round(n / d, 0) as Python rounds: half to even
RoundHalfEven(n, d) ==
    LET q == n \div d
        r == n % d
    IN  IF 2 * r < d THEN q
        ELSE IF 2 * r > d THEN q + 1
        ELSE IF q % 2 = 0 THEN q ELSE q + 1

\* calc_qty: round(balance * RISK_PER_TRADE * LEVERAGE / price, 3), in thousandths
calc_qty(balance, p) ==
    RoundHalfEven(balance * RISK_PCT * LEVERAGE * 1000, 100 * p)

\* place_market_order: the order the exchange accepted (its id is the next
\* one), or status FAILED with no id when the request raised
place_market_order(ok, log) ==
    IF ok THEN [status |-> "NEW", orderId |-> Len(log) + 1]
    ELSE [status |-> "FAILED", orderId |-> None]

\* place_stop_order: main.py imports ORDER_TYPE_STOP_LOSS and uses
\* ORDER_TYPE_STOP_MARKET, which it never imports, inside the try: the
\* NameError is caught with every other exception and the result carries no id.
place_stop_order(side, qty, stop_price) == [orderId |-> None]

SideOf(st) == IF st = "long" THEN "SELL" ELSE "BUY"

\* a slip: the two sides of new_stop exchanged
update_trailing_stop_swapped(pos, current_price) ==
    LET entry == pos.entry
        qty == pos.qty
        pnl == IF pos.state = "long"
               THEN (current_price - entry) * qty * LEVERAGE
               ELSE (entry - current_price) * qty * LEVERAGE
        trail_pnl == (pnl * (100 - DYNAMIC_SL_PCT)) \div 100
        price_diff == trail_pnl \div (qty * LEVERAGE)
        new_stop == IF pos.state = "long" THEN entry - price_diff
                    ELSE entry + price_diff
    IN  IF pos.state = "none" THEN pos
        ELSE IF pnl > pos.max_pnl
        THEN IF new_stop # pos.stop_price
             THEN [pos EXCEPT !.max_pnl = pnl, !.stop_price = new_stop,
                              !.stop_order_id = None]
             ELSE [pos EXCEPT !.max_pnl = pnl]
        ELSE pos

\* a slip: the entry price moved up to the mark price on a new PnL high
update_trailing_stop_rebases(pos, current_price) ==
    IF pos.state = "none" THEN pos
    ELSE IF (IF pos.state = "long" THEN current_price > pos.entry
             ELSE current_price < pos.entry)
    THEN [pos EXCEPT !.entry = current_price, !.stop_price = pos.entry,
                     !.stop_order_id = None]
    ELSE pos

\* update_trailing_stop(current_price): the position afterwards
update_trailing_stop(pos, current_price) ==
    LET entry == pos.entry
        qty == pos.qty
        pnl == IF pos.state = "long"
               THEN (current_price - entry) * qty * LEVERAGE
               ELSE (entry - current_price) * qty * LEVERAGE
        trail_pnl == (pnl * (100 - DYNAMIC_SL_PCT)) \div 100
        price_diff == trail_pnl \div (qty * LEVERAGE)
        new_stop == IF pos.state = "long" THEN entry + price_diff
                    ELSE entry - price_diff
        stop_res == place_stop_order(SideOf(pos.state), qty, new_stop)
    IN  IF pos.state = "none" THEN pos
        ELSE IF pnl > pos.max_pnl
        THEN IF new_stop # pos.stop_price
             THEN [pos EXCEPT !.max_pnl = pnl, !.stop_price = new_stop,
                              !.stop_order_id = stop_res.orderId]
             ELSE [pos EXCEPT !.max_pnl = pnl]
        ELSE pos

\* a slip: the position cleared whatever the order's status
close_position_unchecked(pos, r) ==
    IF pos.state = "none" THEN pos ELSE Baseline

\* close_position(current_price): the position afterwards
close_position(pos, r) ==
    IF pos.state = "none" THEN pos
    ELSE IF r.status = "FAILED" THEN pos
    ELSE Baseline

\* the order close_position submits, when it submits one
close_order(pos, r) ==
    IF pos.state # "none" /\ r.status # "FAILED"
    THEN <<[id |-> r.orderId, kind |-> "close", side |-> SideOf(pos.state)]>>
    ELSE <<>>

\* a slip: the quantity of the submitted order recorded with its id
enter_position_records_qty(pos, r, qty) ==
    [pos EXCEPT !.entry_order_id = r.orderId, !.qty = qty]

\* enter_position, lines 169-170, once the order was accepted
enter_position(pos, r, qty) == [pos EXCEPT !.entry_order_id = r.orderId]

\* generate_signal: HOLD when the book frame or the trades frame is empty;
\* otherwise whatever the indicator thresholds decide
Signals(snap) ==
    IF DOMAIN snap.bids = {} \/ DOMAIN snap.asks = {} \/ snap.trades = <<>>
    THEN {"HOLD"}
    ELSE {"BUY", "SELL", "HOLD"}

\* signal.lower()
lower(sig) == IF sig = "BUY" THEN "buy" ELSE IF sig = "SELL" THEN "sell" ELSE "hold"

(***************************************************************************)
(* main.py: run_trading.  The loop is the only thread that touches         *)
(* main.py's position.  pc names the statement the loop executes next.     *)
(***************************************************************************)
loop_frame == UNCHANGED <<queues, state, heap, lock, cons, clock, committed,
                          n_feed, warnings, caller, ds_position, uh, fills,
                          n_user, marks>>

\* lines 194-200: one turn of `while not command_queue.empty()`
LoopDrain ==
    /\ pc = "drain"
    /\ IF command_queue = <<>>
       THEN /\ pc' = "snapshot"
            /\ UNCHANGED <<command_queue, position, res>>
       ELSE LET command == Head(command_queue)
                stop_res == place_stop_order(command.side, command.qty, command.stop_price)
            IN  /\ command_queue' = Tail(command_queue)
                /\ position' = [position EXCEPT !.stop_price = command.stop_price,
                                                !.stop_order_id = stop_res.orderId]
                /\ res' = [op |-> "place_stop_order",
                           status |-> IF stop_res.orderId = None THEN "FAILED" ELSE "NEW"]
                /\ pc' = "drain"
    /\ UNCHANGED <<snapshot, iter, signal, price, orders>>
    /\ loop_frame

\* lines 202-234: get_snapshot (the bids/asks keys are always in its result),
\* generate_signal, and the mark-price request, which nothing guards
LoopSnapshot ==
    /\ pc = "snapshot"
    /\ lock = "free"
    /\ snapshot' = get_snapshot(state)
    /\ \E sig \in Signals(get_snapshot(state)), ok \in BOOLEAN, p \in MarkPrices :
          /\ signal' = sig
          /\ IF ok
             THEN /\ price' = p
                  /\ pc' = "trail"
                  /\ res' = [op |-> "fetch_price", status |-> "OK"]
             ELSE /\ price' = price
                  /\ pc' = "crashed"
                  /\ res' = [op |-> "fetch_price", status |-> "FAILED"]
    /\ UNCHANGED <<command_queue, position, iter, orders>>
    /\ loop_frame

\* lines 236-239: update_trailing_stop, then the stop-out test, whose
\* comparison raises TypeError on a stop_price of None
LoopManage ==
    /\ pc = "trail"
    /\ IF position.state = "none"
       THEN /\ pc' = "decide"
            /\ UNCHANGED <<position, res>>
       ELSE LET trailed == update_trailing_stop(position, price)
            IN  /\ position' = trailed
                /\ IF trailed.stop_price = None
                   THEN /\ pc' = "crashed"
                        /\ res' = [op |-> "stop_check", status |-> "TypeError"]
                   ELSE /\ res' = [op |-> "update_trailing_stop", status |-> "NONE"]
                        /\ pc' = IF \/ (trailed.state = "long" /\ price <= trailed.stop_price)
                                    \/ (trailed.state = "short" /\ price >= trailed.stop_price)
                                 THEN "stopclose" ELSE "decide"
    /\ UNCHANGED <<snapshot, command_queue, iter, signal, price, orders>>
    /\ loop_frame

\* the two calls of close_position(price): line 240 (stop-out) and line 243,
\* which runs when signal is BUY or SELL and position["state"], one of
\* none/long/short, differs from signal.lower(), one of buy/sell
LoopClose ==
    /\ pc \in {"stopclose", "decide"}
    /\ IF pc = "decide" /\ ~(signal \in {"BUY", "SELL"} /\ position.state # lower(signal))
       THEN /\ pc' = "sleep"
            /\ res' = [op |-> "decide", status |-> "NONE"]
            /\ UNCHANGED <<position, orders>>
       ELSE \E ok \in BOOLEAN :
              LET r == place_market_order(ok, orders)
              IN  /\ position' = close_position(position, r)
                  /\ orders' = orders \o close_order(position, r)
                  /\ res' = [op |-> "close_position",
                             status |-> IF position.state = "none" THEN "NONE" ELSE r.status]
                  /\ pc' = IF pc = "stopclose" THEN "decide" ELSE "enter"
    /\ UNCHANGED <<snapshot, command_queue, iter, signal, price>>
    /\ loop_frame

\* line 244: enter_position(signal, snapshot)
LoopEnter ==
    /\ pc = "enter"
    /\ \E okp \in BOOLEAN, p \in MarkPrices, balance \in fetch_balance_results,
          ok \in BOOLEAN :
          LET qty == calc_qty(balance, p)
              side == IF signal = "BUY" THEN "BUY" ELSE "SELL"
              r == place_market_order(ok, orders)
          IN  IF ~okp
              THEN /\ pc' = "crashed"
                   /\ res' = [op |-> "fetch_price", status |-> "FAILED"]
                   /\ UNCHANGED <<position, orders>>
              ELSE IF qty * p < MIN_NOTIONAL * 1000 * 100
              THEN /\ pc' = "sleep"
                   /\ res' = [op |-> "enter_position", status |-> "BELOW_MIN"]
                   /\ UNCHANGED <<position, orders>>
              ELSE IF r.status = "FAILED"
              THEN /\ pc' = "sleep"
                   /\ res' = [op |-> "enter_position", status |-> "FAILED"]
                   /\ UNCHANGED <<position, orders>>
              ELSE /\ pc' = "sleep"
                   /\ res' = [op |-> "enter_position", status |-> r.status]
                   /\ position' = enter_position(position, r, qty)
                   /\ orders' = Append(orders, [id |-> r.orderId, kind |-> "entry",
                                                side |-> side])
    /\ UNCHANGED <<snapshot, command_queue, iter, signal, price>>
    /\ loop_frame

\* line 246: time.sleep, and the next iteration (its locals are dead by then)
LoopSleep ==
    /\ pc = "sleep"
    /\ iter < MaxIter
    /\ iter' = iter + 1
    /\ pc' = "drain"
    /\ signal' = "HOLD"
    /\ price' = None
    /\ res' = [op |-> "sleep", status |-> "NONE"]
    /\ UNCHANGED <<snapshot, command_queue, position, orders>>
    /\ loop_frame

(***************************************************************************)
(* data_stream.py: user_handler, one statement a step, under the lock.     *)
(***************************************************************************)
NoMsg == [e |-> "none", i |-> None, X |-> "none", S |-> "none", z |-> 0, ap |-> 0]

UserMsgs ==
    { [e |-> "ACCOUNT_UPDATE", i |-> None, X |-> "none", S |-> "none", z |-> 0, ap |-> 0] }
    \cup { [e |-> "ORDER_TRADE_UPDATE", i |-> 1, X |-> "NEW", S |-> "BUY", z |-> 0,
              ap |-> 0] }
    \cup { [e |-> "ORDER_TRADE_UPDATE", i |-> id, X |-> "FILLED", S |-> sd, z |-> 1,
              ap |-> BasePrice]
             : id \in 1..MaxOrderId, sd \in {"BUY", "SELL"} }

\* a slip: the two sides of the conditional exchanged
initial_stop_swapped(entry_price, side) ==
    IF side = "BUY" THEN (entry_price * (100 + INITIAL_SL_PCT)) \div 100
    ELSE (entry_price * (100 - INITIAL_SL_PCT)) \div 100

\* line 101: entry_price * (1 - 0.02 if side == 'BUY' else 1 + 0.02)
initial_stop(entry_price, side) ==
    IF side = "BUY" THEN (entry_price * (100 - INITIAL_SL_PCT)) \div 100
    ELSE (entry_price * (100 + INITIAL_SL_PCT)) \div 100

user_frame == UNCHANGED <<queues, state, heap, cons, clock, snapshot, committed,
                          n_feed, warnings, caller, position, pc, iter, signal,
                          price, res, orders, marks>>

\* the user stream delivers msg: user_handler(msg) enters `with lock`
UserEvent(msg) ==
    /\ uh.pc = "idle"
    /\ n_user < MaxUser
    /\ lock = "free"
    /\ lock' = "user"
    /\ n_user' = n_user + 1
    /\ uh' = [pc |-> "check", msg |-> msg]
    /\ fills' = IF msg.e = "ORDER_TRADE_UPDATE" /\ msg.X = "FILLED"
                   /\ msg.i = position.entry_order_id
                THEN [msg |-> msg, at |-> iter] ELSE fills
    /\ UNCHANGED <<ds_position, command_queue>>
    /\ user_frame

\* the next statement of user_handler (named by its line)
UserHandlerStep ==
    /\ uh.pc # "idle"
    /\ LET msg == uh.msg
           goto(l) == uh' = [uh EXCEPT !.pc = l]
           done == /\ uh' = [pc |-> "idle", msg |-> NoMsg]
                   /\ lock' = "free"
       IN  CASE uh.pc = "check" ->
                  IF msg.e = "ORDER_TRADE_UPDATE" /\ msg.X = "FILLED"
                  THEN IF msg.i = ds_position.entry_order_id
                       THEN goto("l97") /\ UNCHANGED <<lock, ds_position, command_queue>>
                       ELSE IF msg.i = ds_position.stop_order_id
                       THEN goto("l106") /\ UNCHANGED <<lock, ds_position, command_queue>>
                       ELSE done /\ UNCHANGED <<ds_position, command_queue>>
                  ELSE done /\ UNCHANGED <<ds_position, command_queue>>
             [] uh.pc = "l97" ->
                  /\ ds_position' = [ds_position EXCEPT
                         !.state = IF msg.S = "BUY" THEN "long" ELSE "short"]
                  /\ goto("l98") /\ UNCHANGED <<lock, command_queue>>
             [] uh.pc = "l98" ->
                  /\ ds_position' = [ds_position EXCEPT !.entry = Cents(msg.ap)]
                  /\ goto("l99") /\ UNCHANGED <<lock, command_queue>>
             [] uh.pc = "l99" ->
                  /\ ds_position' = [ds_position EXCEPT !.qty = Milli(msg.z)]
                  /\ goto("l100") /\ UNCHANGED <<lock, command_queue>>
             [] uh.pc = "l100" ->
                  /\ ds_position' = [ds_position EXCEPT !.max_pnl = 0]
                  /\ goto("l103") /\ UNCHANGED <<lock, command_queue>>
             [] uh.pc = "l103" ->
                  /\ command_queue' = Append(command_queue,
                         [op |-> "place_stop_order",
                          side |-> IF msg.S = "BUY" THEN "SELL" ELSE "BUY",
                          qty |-> Milli(msg.z),
                          stop_price |-> initial_stop(Cents(msg.ap), msg.S)])
                  /\ done /\ UNCHANGED ds_position
             [] uh.pc = "l106" ->
                  /\ ds_position' = [ds_position EXCEPT !.state = "none"]
                  /\ goto("l107") /\ UNCHANGED <<lock, command_queue>>
             [] uh.pc = "l107" ->
                  /\ ds_position' = [ds_position EXCEPT !.entry = None]
                  /\ goto("l108") /\ UNCHANGED <<lock, command_queue>>
             [] uh.pc = "l108" ->
                  /\ ds_position' = [ds_position EXCEPT !.qty = 0]
                  /\ goto("l109") /\ UNCHANGED <<lock, command_queue>>
             [] uh.pc = "l109" ->
                  /\ ds_position' = [ds_position EXCEPT !.max_pnl = 0]
                  /\ goto("l110") /\ UNCHANGED <<lock, command_queue>>
             [] uh.pc = "l110" ->
                  /\ ds_position' = [ds_position EXCEPT !.stop_price = None]
                  /\ goto("l111") /\ UNCHANGED <<lock, command_queue>>
             [] uh.pc = "l111" ->
                  /\ ds_position' = [ds_position EXCEPT !.stop_order_id = None]
                  /\ goto("l112") /\ UNCHANGED <<lock, command_queue>>
             [] uh.pc = "l112" ->
                  /\ ds_position' = [ds_position EXCEPT !.entry_order_id = None]
                  /\ done /\ UNCHANGED command_queue
    /\ UNCHANGED <<fills, n_user>>
    /\ user_frame

(***************************************************************************)
(* The program after construction: fetch_initial_data has run (it fills    *)
(* the store, or fails before touching it), the streams and the loop start.*)
(***************************************************************************)
\* the wall clock at start: half past minute 1, in seconds
StartClock == 60 + 30

EmptyStore ==
    [bids |-> <<>>, asks |-> <<>>, last_update_id |-> 0, trades |-> <<>>,
     volume_history |-> <<>>, ticker_pct |-> 0]

\* fetch_initial_data: the REST book, the recent trades, one volume update
fetch_initial_data(ok, now) ==
    IF ~ok THEN [state |-> EmptyStore, heap |-> <<>>]
    ELSE LET h1 == <<make_trade([p |-> BasePrice, q |-> 1, m |-> FALSE, T |-> now * 1000])>>
             s1 == [EmptyStore EXCEPT !.bids = merge_levels(<<>>, <<<<1, 1>>>>),
                                      !.asks = merge_levels(<<>>, <<<<3, 1>>>>),
                                      !.last_update_id = 1,
                                      !.trades = <<1>>]
             r == update_volumes_locked(s1, h1, now)
         IN  [state |-> [r.state EXCEPT !.ticker_pct = 1], heap |-> r.heap]

InitMarket(fetched) ==
    /\ queues = [c \in Categories |-> <<>>]
    /\ cons = [c \in Categories |-> [pc |-> "idle", msg |-> <<>>]]
    /\ lock = "free"
    /\ clock = StartClock
    /\ \E ok \in fetched :
          /\ state = fetch_initial_data(ok, StartClock).state
          /\ heap = fetch_initial_data(ok, StartClock).heap
    /\ snapshot = get_snapshot(EmptyStore)
    /\ committed = View(state, heap)
    /\ n_feed = 0
    /\ warnings = 0
    /\ caller = 0

InitLoop ==
    /\ command_queue = <<>>
    /\ pc = "drain"
    /\ iter = 0
    /\ signal = "HOLD"
    /\ price = None
    /\ res = [op |-> "none", status |-> "none"]
    /\ orders = <<>>
    /\ uh = [pc |-> "idle", msg |-> NoMsg]
    /\ fills = [msg |-> NoMsg, at |-> 0]
    /\ n_user = 0
    /\ marks = [prices |-> <<>>, stops |-> <<>>]

Init ==
    /\ InitMarket(BOOLEAN)
    /\ InitLoop
    /\ position = Baseline
    /\ ds_position = Baseline

FeedNext ==
    \/ \E msg \in DepthMsgs : depth_handler(msg)
    \/ \E msg \in TradeMsgs(clock) : trade_handler(msg)
    \/ \E msg \in TradeMsgs(clock) : aggtrade_handler(msg)
    \/ \E msg \in TickerMsgs : ticker_handler(msg)
    \/ process_depth_get
    \/ process_depth_bids
    \/ process_depth_asks
    \/ process_depth_uid
    \/ \E c \in {"trade", "aggtrade"} : process_trades_get(c)
    \/ \E c \in {"trade", "aggtrade"} : process_trades_append(c)
    \/ \E c \in {"trade", "aggtrade"} : process_trades_volumes(c)
    \/ process_ticker
    \/ Tick

NextTrade ==
    \/ LoopDrain
    \/ LoopSnapshot
    \/ LoopManage
    \/ LoopClose
    \/ LoopEnter
    \/ LoopSleep
    \/ \E msg \in UserMsgs : UserEvent(msg)
    \/ UserHandlerStep

Next == FeedNext \/ NextTrade

\* the whole program
Spec == Init /\ [][Next]_vars

\* the trading side while the feed is quiet: no feed action writes a variable
\* of the trading side, and the loop reads the store only to choose a signal
SpecTrade == Init /\ [][NextTrade]_vars

\* a slip: the copy taken without `with lock`
ReadSnapshot_unlocked ==
    /\ snapshot' = get_snapshot(state)
    /\ UNCHANGED <<queues, state, heap, lock, cons, clock, committed, n_feed,
                   warnings, caller>>
    /\ UNCHANGED trade_vars

\* get_snapshot called by the trading loop, at whichever moment its iteration
\* reaches line 202
ReadSnapshot ==
    /\ lock = "free"
    /\ snapshot' = get_snapshot(state)
    /\ UNCHANGED <<queues, state, heap, lock, cons, clock, committed, n_feed,
                   warnings, caller>>
    /\ UNCHANGED trade_vars

NextMarket == FeedNext \/ ReadSnapshot

\* the market side: feeds, consumers and the loop's snapshots
SpecMarket == Init /\ [][NextMarket]_vars

(***************************************************************************)
(* Snapshot harness: the market side, and a caller of get_snapshot that    *)
(* writes to the copy it was given: a price level of the returned book, a  *)
(* field of a trade or of a volume bucket in the returned lists.           *)
(***************************************************************************)
caller_frame == UNCHANGED <<queues, state, lock, cons, clock, committed, n_feed,
                            warnings>>

\* snapshot["order_book"]["depth"]["bids"][1.0] = 9.0
CallerSetsLevel ==
    /\ caller < MaxCaller
    /\ caller' = caller + 1
    /\ snapshot' = [snapshot EXCEPT !.bids = DictSet(@, 1, 9)]
    /\ UNCHANGED heap
    /\ caller_frame
    /\ UNCHANGED trade_vars

\* snapshot["trades"][0]["qty"] = 9.0
CallerSetsTradeField ==
    /\ caller < MaxCaller
    /\ snapshot.trades # <<>>
    /\ caller' = caller + 1
    /\ heap' = [heap EXCEPT ![snapshot.trades[1]].qty = 9]
    /\ UNCHANGED snapshot
    /\ caller_frame
    /\ UNCHANGED trade_vars

\* snapshot["volume_history"][0]["volume"] = 9.0
CallerSetsBucketField ==
    /\ caller < MaxCaller
    /\ snapshot.volume_history # <<>>
    /\ caller' = caller + 1
    /\ heap' = [heap EXCEPT ![snapshot.volume_history[1]].volume = 9]
    /\ UNCHANGED snapshot
    /\ caller_frame
    /\ UNCHANGED trade_vars

NextSnap ==
    \/ NextMarket
    \/ CallerSetsLevel
    \/ CallerSetsTradeField
    \/ CallerSetsBucketField

SpecSnap == Init /\ [][NextSnap]_vars

(***************************************************************************)
(* Operation harness: the same trading side, started from the Position     *)
(* records its operations are written for (an entry awaiting its fill, an  *)
(* open position with or without its stop recorded).                       *)
(***************************************************************************)
OpenPosition(st, stop, stop_id) ==
    [state |-> st, entry_order_id |-> 1, stop_order_id |-> stop_id,
     entry |-> Cents(BasePrice), qty |-> Milli(1), max_pnl |-> 0,
     stop_price |-> stop]

Pending == [Baseline EXCEPT !.entry_order_id = 1]

LoopPositions ==
    { Baseline,
      OpenPosition("long", initial_stop(Cents(BasePrice), "BUY"), None),
      OpenPosition("long", None, None),
      OpenPosition("short", initial_stop(Cents(BasePrice), "SELL"), None) }

HandlerPositions ==
    { Pending,
      OpenPosition("long", initial_stop(Cents(BasePrice), "BUY"), 2) }

InitOps ==
    /\ InitMarket({TRUE})
    /\ InitLoop
    /\ position \in LoopPositions
    /\ ds_position \in HandlerPositions

SpecOps == InitOps /\ [][NextTrade]_vars

(***************************************************************************)
(* Trailing-stop harness: update_trailing_stop called with one mark price  *)
(* after another on a position just filled, its stop the initial 2% stop.  *)
(* marks keeps the prices passed and the stop prices recorded.             *)
(***************************************************************************)
TrailPrices == { Cents(d) : d \in (BasePrice - TrailMove)..(BasePrice + TrailMove) }

InitTrail ==
    /\ InitMarket({TRUE})
    /\ InitLoop
    /\ ds_position = Baseline
    /\ \E st \in {"long", "short"}, q \in {1, 2} :
          position = [OpenPosition(st, initial_stop(Cents(BasePrice),
                                      IF st = "long" THEN "BUY" ELSE "SELL"), None)
                        EXCEPT !.qty = Milli(q)]

TrailStep(p) ==
    /\ Len(marks.prices) < MaxTrail
    /\ position' = update_trailing_stop(position, p)
    /\ marks' = [prices |-> Append(marks.prices, p),
                 stops |-> IF position'.stop_price # position.stop_price
                           THEN Append(marks.stops, position'.stop_price)
                           ELSE marks.stops]
    /\ UNCHANGED market_vars
    /\ UNCHANGED <<ds_position, command_queue, pc, iter, signal, price, res,
                   orders, uh, fills, n_user>>

NextTrail == \E p \in TrailPrices : TrailStep(p)

SpecTrail == InitTrail /\ [][NextTrail]_vars

(***************************************************************************)
(* Depth harness: the depth feed and its consumer alone, with deltas that  *)
(* mention some levels and not others, a level twice, and zero quantities. *)
(***************************************************************************)
BidLists ==
    {<<>>}
    \cup { <<<<p, q>>>> : p \in {1, 2}, q \in 0..MaxBookQty }
    \cup { <<<<1, q>>, <<1, MaxBookQty - q>>>> : q \in 0..MaxBookQty }

AskLists == {<<>>} \cup { <<<<3, q>>>> : q \in 0..MaxBookQty }

DepthDeltas ==
    { [e |-> "depthUpdate", b |-> b, a |-> a, u |-> 2] : b \in BidLists, a \in AskLists }

NextDepth ==
    \/ \E msg \in DepthDeltas : depth_handler(msg)
    \/ process_depth_get
    \/ process_depth_bids
    \/ process_depth_asks
    \/ process_depth_uid

SpecDepth == Init /\ [][NextDepth]_vars

(***************************************************************************)
(* Exit harness: an open position whose stop order (id MaxOrderId) rests   *)
(* on the exchange, on record in both Position dictionaries.  The exchange *)
(* fills the stop and reports it: the user stream delivers FILLED for that *)
(* id, at whichever moment of the loop's iteration.                        *)
(***************************************************************************)
InitExit ==
    /\ InitMarket({TRUE})
    /\ InitLoop
    /\ \E st \in {"long", "short"} :
          /\ position = OpenPosition(st, initial_stop(Cents(BasePrice),
                                        IF st = "long" THEN "BUY" ELSE "SELL"),
                                     MaxOrderId)
          /\ ds_position = position

SpecExit == InitExit /\ [][NextTrade]_vars

(***************************************************************************)
(* Claims.                                                                 *)
(***************************************************************************)
Positions == {position, ds_position}

\* C1 (as stated): in every reachable state, a Position whose state is none
\* has entry price, quantity, stop price, stop order id and entry order id
\* all cleared.
C1_NoneImpliesAllCleared ==
    \A pos \in Positions :
        pos.state = "none" =>
            /\ pos.entry = None
            /\ pos.qty = 0
            /\ pos.stop_price = None
            /\ pos.stop_order_id = None
            /\ pos.entry_order_id = None

\* C1 (amended): in every reachable state, a Position whose state is none has
\* entry price, quantity, stop price and stop order id cleared; its entry
\* order id is set while an accepted entry order awaits its fill.
C1_NoneImpliesClearedButEntryId ==
    \A pos \in Positions :
        pos.state = "none" =>
            /\ pos.entry = None
            /\ pos.qty = 0
            /\ pos.stop_price = None
            /\ pos.stop_order_id = None

\* C1 witness: enter_position has recorded an entry order id and the state is
\* still none.
C1_Witness ==
    /\ position.state = "none"
    /\ position.entry_order_id # None
    /\ res = [op |-> "enter_position", status |-> "NEW"]

\* C3: once enter_position has recorded the id of an accepted entry order and
\* a FILLED event for that id has been delivered to user_handler and handled,
\* the Position the trading loop reads at the start of its following
\* iterations is long or short per the filled side, with the fill's average
\* price as entry and its cumulative quantity as qty.
C3_FillReachesLoopPosition ==
    ( /\ pc = "drain"
      /\ uh.pc = "idle"
      /\ fills.msg.i # None
      /\ fills.msg.i = position.entry_order_id
      /\ iter > fills.at )
    => /\ position.state = (IF fills.msg.S = "BUY" THEN "long" ELSE "short")
       /\ position.entry = Cents(fills.msg.ap)
       /\ position.qty = Milli(fills.msg.z)

\* C6: no failure of an exchange request made from the trading loop ends the
\* loop: it is never stopped by a failed request.
C6_LoopSurvivesExchangeFailures ==
    ~(pc = "crashed" /\ res.op = "fetch_price" /\ res.status = "FAILED")

\* C2: when user_handler handles a FILLED ORDER_TRADE_UPDATE whose order id is
\* the Position's entry order id, it takes the entry branch, and when it
\* returns the Position is long for BUY and short otherwise, with entry the
\* average price, qty the filled quantity and max PnL 0, and exactly one
\* PlaceStopOrder command was appended to the command queue: opposite side,
\* the filled quantity, stop price 0.98 of the price for BUY and 1.02 for SELL.
C2_EntryFill ==
    [][ LET msg == uh.msg
            buy == msg.S = "BUY"
        IN  /\ ( /\ uh.pc = "check"
                 /\ uh'.pc # "check"
                 /\ msg.e = "ORDER_TRADE_UPDATE"
                 /\ msg.X = "FILLED"
                 /\ msg.i = ds_position.entry_order_id )
               => uh'.pc = "l97"
            /\ (uh.pc = "l103" /\ uh'.pc = "idle")
               => /\ ds_position'.state = (IF buy THEN "long" ELSE "short")
                  /\ ds_position'.entry = Cents(msg.ap)
                  /\ ds_position'.qty = Milli(msg.z)
                  /\ ds_position'.max_pnl = 0
                  /\ Len(command_queue') = Len(command_queue) + 1
                  /\ SubSeq(command_queue', 1, Len(command_queue)) = command_queue
                  /\ LET c == command_queue'[Len(command_queue')]
                     IN  /\ c.op = "place_stop_order"
                         /\ c.side = (IF buy THEN "SELL" ELSE "BUY")
                         /\ c.qty = Milli(msg.z)
                         /\ c.stop_price * 100 = Cents(msg.ap) * (IF buy THEN 98 ELSE 102)
            /\ (uh.pc \notin {"idle", "l103"} /\ uh' # uh)
               => Len(command_queue') <= Len(command_queue)
      ]_vars

\* C2 witness: the spec's scenario, a BUY fill of 1 at 100 handled to the end:
\* Position long at 100, quantity 1, and the command SELL 1 stop 98 queued.
C2_Witness ==
    /\ uh.pc = "idle"
    /\ n_user = 1
    /\ ds_position.state = "long"
    /\ ds_position.entry = Cents(100)
    /\ ds_position.qty = Milli(1)
    /\ ds_position.max_pnl = 0
    /\ command_queue = <<[op |-> "place_stop_order", side |-> "SELL",
                          qty |-> Milli(1), stop_price |-> Cents(98)]>>

C7_FailedOrderChangesNothing ==
    [][ /\ ( /\ pc \in {"stopclose", "decide"}
             /\ res'.op = "close_position"
             /\ res'.status = "FAILED" )
           => (position' = position /\ orders' = orders)
        /\ ( /\ pc = "enter"
             /\ res'.op = "enter_position"
             /\ res'.status = "FAILED" )
           => (position' = position /\ orders' = orders)
      ]_vars

\* C7 witness: a close order failed on an open position, which is still open.
C7_Witness ==
    /\ res = [op |-> "close_position", status |-> "FAILED"]
    /\ position.state \in {"long", "short"}
    /\ position.entry > 0

\* each element of seq is strictly better than the one before it
Improving(seq, st) ==
    \A i \in 1..(Len(seq) - 1) :
        IF st = "long" THEN seq[i + 1] > seq[i] ELSE seq[i + 1] < seq[i]

\* no element of seq is worse for the position than the one before it
NeverAgainst(seq, st) ==
    \A i \in 1..(Len(seq) - 1) :
        IF st = "long" THEN seq[i + 1] >= seq[i] ELSE seq[i + 1] <= seq[i]

\* C5: for a position whose stop starts at the initial 2% stop and mark prices
\* each strictly better than the one before, the stop prices
\* update_trailing_stop records, the initial stop first, never move against
\* the position: non-decreasing for long, non-increasing for short.
C5_RatchetMonotone ==
    ( /\ position.state \in {"long", "short"}
      /\ Improving(marks.prices, position.state) )
    => NeverAgainst(<<initial_stop(position.entry,
                        IF position.state = "long" THEN "BUY" ELSE "SELL")>>
                    \o marks.stops, position.state)

\* C5 witness: two strictly improving prices, each of which recorded a stop.
C5_Witness ==
    /\ position.state = "short"
    /\ Len(marks.prices) = 2
    /\ Improving(marks.prices, position.state)
    /\ Len(marks.stops) = 2
    /\ marks.stops[2] < marks.stops[1]
    /\ position.stop_price = marks.stops[2]

\* the call of the handler of category c with some message
HandlerCall(c) ==
    CASE c = "depth" -> \E msg \in DepthMsgs \ {m \in DepthMsgs : m.e # "depthUpdate"} :
                            depth_handler(msg)
      [] c = "trade" -> \E msg \in TradeMsgs(clock) : trade_handler(msg)
      [] c = "aggtrade" -> \E msg \in TradeMsgs(clock) : aggtrade_handler(msg)
      [] c = "ticker" -> \E msg \in TickerMsgs : ticker_handler(msg)

\* C8: a feed handler called while its ingestion queue holds MaxQueue events
\* is not blocked, and the call leaves that queue, length and contents, as it
\* was: the new event is discarded.
C8_FullQueueDropsNewest ==
    /\ [](\A c \in Categories :
            (Len(queues[c]) = MaxQueue /\ n_feed < MaxFeed) => ENABLED HandlerCall(c))
    /\ [][ n_feed' # n_feed =>
             \A c \in Categories :
                 Len(queues[c]) = MaxQueue => queues'[c] = queues[c] ]_vars

\* C8 witness: a handler found its queue full and logged the drop; the queue
\* still holds MaxQueue events.
C8_Witness ==
    /\ warnings > 0
    /\ \E c \in Categories : Len(queues[c]) = MaxQueue

\* a depth delta of the feed is in the view with all its levels and both
\* sides, or not at all (every delta carries one quantity for bids 1, 2 and
\* ask 3; level 2 exists only once a delta was merged)
DeltaWhole(v) ==
    2 \in DOMAIN v.bids =>
        (v.bids[1] = v.bids[2] /\ 3 \in DOMAIN v.asks /\ v.asks[3] = v.bids[2])

\* the last volume bucket is the sum over the trades of the view since the
\* bucket's minute
VolumeMatches(v) ==
    (v.trades # <<>> /\ v.volume_history # <<>>) =>
        LET last == v.volume_history[Len(v.volume_history)]
        IN  last.volume = SumQty(v.trades, [i \in 1..Len(v.trades) |-> i], last.time)

\* C9: every snapshot get_snapshot returns is the store as it stood when the
\* lock was last released: no delta is in it with only some of its levels or
\* sides, no trade without the volume recomputation that follows it.
C9_SnapshotAtomic ==
    [][ snapshot' # snapshot =>
          LET v == View(snapshot', heap')
          IN  /\ v = committed
              /\ DeltaWhole(v)
              /\ VolumeMatches(v) ]_vars

\* C9 witness: a snapshot holding a merged delta and two trades with their
\* bucket, taken while some consumer holds a message it has yet to apply.
C9_Witness ==
    /\ 2 \in DOMAIN snapshot.bids
    /\ Len(snapshot.trades) = 2
    /\ View(snapshot, heap) = committed
    /\ \E c \in Categories : cons[c].pc = "got"

\* C10: a second get_snapshot with no write in between returns an equal copy,
\* and no write of the caller to a returned copy (a price level, a field of a
\* trade or of a volume bucket in the returned lists) changes the live store.
C10_CopyIsDeep ==
    [][ /\ (snapshot' # snapshot /\ caller' = caller)
           => View(snapshot, heap) # View(state, heap)
        /\ caller' # caller
           => View(state', heap') = View(state, heap) ]_vars

\* C11: once get_snapshot has returned, no later write of a consumer changes
\* any value reachable from the returned snapshot.
C11_SnapshotImmutable ==
    [][ (snapshot' = snapshot /\ caller' = caller)
          => View(snapshot', heap') = View(snapshot, heap) ]_vars

\* the levels a list of [price, qty] pairs mentions
Mentioned(pairs) == { pairs[i][1] : i \in 1..Len(pairs) }

\* the quantity the last pair of the list that mentions level p gives
LastQty(pairs, p) ==
    LET idx == { i \in 1..Len(pairs) : pairs[i][1] = p }
    IN  pairs[CHOOSE i \in idx : \A j \in idx : j <= i][2]

\* a book side after a delta: its last quantity at each level it mentions,
\* the previous quantity at every other level
Overwritten(side, pairs) ==
    [p \in (DOMAIN side) \cup Mentioned(pairs) |->
        IF p \in Mentioned(pairs) THEN LastQty(pairs, p) ELSE side[p]]

\* C12: the depth consumer takes the deltas in the order depth_handler
\* accepted them, and applying a delta leaves at each bid and ask level the
\* delta mentions the last quantity it gives for it (zero stored as zero) and
\* at every other level the previous quantity; nothing else writes the book.
\* So after any sequence of deltas each level holds the quantity of the last
\* applied delta that mentions it.
C12_LastWriterWins ==
    [][ LET d == cons["depth"]
            d2 == cons'["depth"]
        IN  /\ Len(queues'["depth"]) > Len(queues["depth"])
               => SubSeq(queues'["depth"], 1, Len(queues["depth"])) = queues["depth"]
            /\ (d.pc = "idle" /\ d2.pc = "got")
               => /\ d2.msg = Head(queues["depth"])
                  /\ queues'["depth"] = Tail(queues["depth"])
            /\ (d.pc = "got" /\ d2.pc = "asks")
               => /\ state'.bids = Overwritten(state.bids, d.msg.b)
                  /\ state'.asks = state.asks
            /\ (d.pc = "asks" /\ d2.pc = "uid")
               => /\ state'.asks = Overwritten(state.asks, d.msg.a)
                  /\ state'.bids = state.bids
            /\ (d.pc \notin {"got", "asks"})
               => (state'.bids = state.bids /\ state'.asks = state.asks)
      ]_vars

\* C12 witness: two deltas applied; the second named bid level 1 twice, its
\* last quantity zero, and the book holds that zero, the quantity the first
\* delta gave for bid level 2 and the fetched quantity of ask level 3.
C12_Witness ==
    /\ cons["depth"].pc = "idle"
    /\ queues["depth"] = <<>>
    /\ n_feed = 2
    /\ state.last_update_id = 2
    /\ state.bids = DictSet(DictSet(<<>>, 1, 0), 2, 0)
    /\ state.asks = DictSet(<<>>, 3, 1)

\* the trades applied so far, in the order they were applied (every trade
\* dict is created once and never destroyed in heap)
AppliedTrades == SelectSeq(heap, LAMBDA o : "price" \in DOMAIN o)

NonDecreasingTimes(trades) ==
    \A i \in 1..(Len(trades) - 1) : trades[i].time <= trades[i + 1].time

\* the minute, in seconds, a trade's millisecond timestamp falls in
TradeMinute(t) == ((t.time \div 1000) \div 60) * 60

\* sum of the quantities of the trades of the list stamped in minute m
RECURSIVE SumInMinute(_, _)
SumInMinute(trades, m) ==
    IF trades = <<>> THEN 0
    ELSE (IF TradeMinute(Head(trades)) = m THEN Head(trades).qty ELSE 0)
         + SumInMinute(Tail(trades), m)

Ring == Deref(heap, state.trades)
Buckets == Deref(heap, state.volume_history)

\* C13 (as stated): when the applied trades have non-decreasing timestamps,
\* no two buckets of the ring are for the same minute and every bucket's
\* volume is the sum of the quantities of the trades now in the trade ring
\* that are stamped in the bucket's minute.
C13_EveryBucketMatchesRing ==
    (lock = "free" /\ NonDecreasingTimes(AppliedTrades))
    => /\ \A i, j \in 1..Len(Buckets) : Buckets[i].time = Buckets[j].time => i = j
       /\ \A i \in 1..Len(Buckets) :
              Buckets[i].volume = SumInMinute(Ring, Buckets[i].time)

\* C13 (amended): between consumer critical sections the bucket times are
\* strictly increasing along the ring (at most one bucket per minute), and
\* the last bucket's volume is the sum of the quantities of the trades now in
\* the trade ring stamped at or after the start of that bucket's minute.
C13_LastBucketMatchesRing ==
    lock = "free"
    => /\ \A i \in 1..(Len(Buckets) - 1) : Buckets[i].time < Buckets[i + 1].time
       /\ Buckets # <<>>
          => Buckets[Len(Buckets)].volume
               = SumQty(heap, state.trades, Buckets[Len(Buckets)].time)

\* C13 witness: trades with non-decreasing timestamps over two minutes; the
\* ring has evicted the first minute's trade, whose bucket still counts it,
\* and the last bucket is the sum of the two trades of its minute.
C13_Witness ==
    /\ lock = "free"
    /\ NonDecreasingTimes(AppliedTrades)
    /\ Len(Buckets) = 2
    /\ Buckets[1].volume > 0
    /\ SumInMinute(Ring, Buckets[1].time) = 0
    /\ Buckets[2].volume = SumInMinute(Ring, Buckets[2].time)
    /\ Buckets[2].volume > 1

\* the trade dicts created so far, by reference, in the order of creation
AppliedRefs ==
    SelectSeq([i \in 1..Len(heap) |-> i], LAMBDA i : "price" \in DOMAIN heap[i])

\* the last n elements of a sequence (all of it when it is shorter)
LastN(seq, n) ==
    IF Len(seq) <= n THEN seq ELSE SubSeq(seq, Len(seq) - n + 1, Len(seq))

\* C14: after any interleaving of trade and aggregated-trade events applied
\* by the two trade consumers, K trades in all, the trade ring holds no more
\* than its capacity and holds exactly the last min(K, capacity) applied
\* trades, in the order they were applied.
C14_RingHoldsLastTrades ==
    /\ Len(state.trades) <= TradeCap
    /\ state.trades = LastN(AppliedRefs, TradeCap)

\* C14 witness: both trade consumers have applied trades, more than the ring
\* holds in all, and the ring is full with the oldest trade gone.
C14_Witness ==
    /\ Len(AppliedRefs) > TradeCap
    /\ Len(state.trades) = TradeCap
    /\ state.trades[1] # AppliedRefs[1]
    /\ cons["trade"].pc = "volumes"
    /\ cons["aggtrade"].pc = "got"
    /\ \E i \in 1..Len(state.trades) : heap[state.trades[i]].is_buyer_maker

SameDirection ==
    \/ signal = "HOLD"
    \/ (signal = "BUY" /\ position.state = "long")
    \/ (signal = "SELL" /\ position.state = "short")

FillFields(pos) ==
    [state |-> pos.state, entry |-> pos.entry, qty |-> pos.qty,
     entry_order_id |-> pos.entry_order_id]

\* C18 (as stated): no operation of the trading loop writes the entry order
\* id, the state, the entry price or the quantity of its Position.
C18_LoopNeverWritesFillFields ==
    [][ FillFields(position') = FillFields(position) ]_vars

\* C18 (amended): the command application and update_trailing_stop leave the
\* entry order id, state, entry price and quantity as they were;
\* enter_position writes the entry order id alone, the id of the accepted
\* order; close_position writes them only by clearing the whole Position to
\* the none baseline.  No operation of the loop opens a position.
C18_LoopWritesOnlyIdAndClear ==
    [][ FillFields(position') # FillFields(position)
        => \/ /\ pc \in {"stopclose", "decide"}
              /\ position.state # "none"
              /\ position' = Baseline
           \/ /\ pc = "enter"
              /\ position'.entry_order_id # None
              /\ position' = [position EXCEPT !.entry_order_id = position'.entry_order_id]
      ]_vars

\* C18 witness: at the iteration's decision close_position has submitted its
\* order and cleared an open position; enter_position is next.
C18_Witness ==
    /\ position = Baseline
    /\ res = [op |-> "close_position", status |-> "NEW"]
    /\ pc = "enter"
    /\ orders # <<>>
    /\ orders[Len(orders)].kind = "close"

\* C19: whenever the exchange accepts an entry market order of the trading
\* loop, the loop's Position was, at the submission, in state none with no
\* entry order id on record.
C19_EntryOnlyFromBaseline ==
    [][ ( /\ Len(orders') > Len(orders)
          /\ orders'[Len(orders')].kind = "entry" )
        => (position.state = "none" /\ position.entry_order_id = None) ]_vars

StopFillHandled ==
    /\ uh.pc = "idle"
    /\ ds_position.state = "none"
    /\ ds_position.stop_order_id = None

====
